---- MODULE Spec2Model ----
(***************************************************************************)
(* Model of PPF-FoldNet's two scripts:                                     *)
(*   script/fuse_fragments_3DMatch.py  (run_seq, process_single_fragment)  *)
(*   misc/icp_registration.py          (__main__, draw_registration_result)*)
(*                                                                         *)
(* Camera poses are rigid transforms; the model keeps their group          *)
(* structure (composition, inverse, identity, non-commutativity) by using  *)
(* the permutations of three points, written as 3-tuples.  A matrix that   *)
(* holds a NaN entry is the tuple NaNMatrix; numpy propagates NaN through  *)
(* matmul and inv, and so do Mul and Inv.                                  *)
(***************************************************************************)
EXTENDS Integers, Sequences, FiniteSets, TLC

VARIABLES
    \* ---- fuse_fragments_3DMatch.py ----
    n_frames,          \* len(depth_paths)
    frames_per_frag,   \* cfg.frames_per_frag
    threads,           \* cfg.threads
    depth_only_flag,   \* len(color_files) == 0
    pose_files,        \* frame index -> content of <frame>.pose.txt
    n_frags,           \* run_seq's n_frags
    run_pc,            \* run_seq: "fragments" | "finished"
    started,           \* frag_ids process_single_fragment was called with, in call order
    tasks,             \* frag_id -> locals of that call of process_single_fragment
    volumes,           \* the ScalableTSDFVolume objects created so far
    files,             \* out_folder: file name -> content
    \* ---- icp_registration.py ----
    icp_pc,            \* position in __main__ / draw_registration_result
    heap,              \* point-cloud objects, by reference
    source, target,    \* references held by __main__
    trans_init,        \* the initial transform
    loaded,            \* the clouds' values when the registration part begins
    draw,              \* locals of the running draw_registration_result call
    shown,             \* what draw_geometries displayed, per call
    reg_calls,         \* arguments of evaluate_registration / registration_icp
    reg_p2p, reg_p2l   \* the transformations the two ICP runs returned

fuse_vars == <<n_frames, frames_per_frag, threads, depth_only_flag, pose_files,
               n_frags, run_pc, started, tasks, volumes, files>>
icp_vars  == <<icp_pc, heap, source, target, trans_init, loaded, draw, shown,
               reg_calls, reg_p2p, reg_p2l>>
vars == <<fuse_vars, icp_vars>>

\* ---------------------------------------------------------------- bounds
MaxFrames == 3
MaxFramesPerFrag == 3
MaxThreads == 2

\* ---------------------------------------------------------------- poses
None == <<>>
NaNMatrix == <<0, 0, 0>>
Identity == <<1, 2, 3>>
AllPoses == {<<1, 2, 3>>, <<2, 1, 3>>, <<1, 3, 2>>, <<3, 2, 1>>, <<2, 3, 1>>, <<3, 1, 2>>}
\* the pose values the input files are drawn from: two reflections and a rotation,
\* so that products do not commute and are not all self-inverse
PoseVals == {<<2, 1, 3>>, <<1, 3, 2>>, <<2, 3, 1>>}

\* np.matmul(a, b)
Mul(a, b) ==
    IF a = NaNMatrix \/ b = NaNMatrix THEN NaNMatrix
    ELSE [i \in 1..3 |-> a[b[i]]]

\* np.linalg.inv(a)
Inv(a) ==
    IF a = NaNMatrix THEN NaNMatrix
    ELSE [i \in 1..3 |-> CHOOSE j \in 1..3 : a[j] = i]

Min(a, b) == IF a < b THEN a ELSE b

\* ------------------------------------------------- fuse_fragments_3DMatch
\* variant: the matrix is returned without the NaN test
read_extrinsic_nocheck(m) == m

\* read_extrinsic: None when any entry is NaN
read_extrinsic(m) == IF m = NaNMatrix THEN None ELSE m

\* variant: the quotient rounded down
NFragsFloor(n, fpf) == n \div fpf

\* int(math.ceil(float(n_frames) / cfg.frames_per_frag))
NFrags(n, fpf) == IF n % fpf = 0 THEN n \div fpf ELSE (n \div fpf) + 1

\* sid = frag_id * cfg.frames_per_frag
FragStart(frag_id, fpf) == frag_id * fpf

\* eid = min(sid + cfg.frames_per_frag, n_frames)
FragEnd(sid, fpf, n) == Min(sid + fpf, n)

\* depth_files[fid], color_files[fid]
DepthPath(fid) == <<"depth", fid>>
ColorPath(fid) == <<"color", fid>>

\* color_path of one loop iteration
color_path_of(depth_only, fid) == IF depth_only THEN None ELSE ColorPath(fid)

\* read_rgbd_image(cfg, color_file, depth_file, False)
read_rgbd_image(color_file, depth_file) ==
    [color |-> IF color_file = None THEN depth_file ELSE color_file,
     depth |-> depth_file]

\* the colour type the volume is constructed with
ColorType(depth_only) == IF depth_only THEN "None" ELSE "RGB8"

\* variant: one volume object shared by all calls
SharedVolume(vols) == 1

\* o3d.integration.ScalableTSDFVolume(...): a fresh object
NewVolume(vols) == Len(vols) + 1

\* if fid == sid:  # Use as base frame
IsBaseFrame(fid, sid) == fid = sid

\* np.matmul(pose_base2world_inv, pose_cam2world)
RelativePose(base_inv, pose) == Mul(base_inv, pose)

\* variant: the relative pose handed over without inversion
IntegrateExtrinsicNotInverted(rel) == rel

\* the extrinsic handed to volume.integrate: np.linalg.inv(pose_cam2world)
IntegrateExtrinsic(rel) == Inv(rel)

\* variant: the test after the loop is missing
HasNoBaseNever(base_inv) == FALSE

\* inside the loop: if pose_base2world_inv is None: break
BreaksWithoutBase(base_inv) == base_inv = None

\* after the loop: if pose_base2world_inv is None: return
HasNoBase(base_inv) == base_inv = None

\* variant: the base pose re-expressed relative to the base is saved
SavedPoseRelative(t) == Mul(t.pose_base2world_inv, t.pose_base2world)

\* the array np.save writes
SavedPose(t) == t.pose_base2world

\* variant: the file name does not depend on frag_id
PlyNameShared(frag_id) == <<"cloud_bin", 0, "ply">>

\* 'cloud_bin_{}.ply'.format(frag_id)
PlyName(frag_id) == <<"cloud_bin", frag_id, "ply">>

\* 'cloud_bin_{}.pose.npy'.format(frag_id)
PoseName(frag_id) == <<"cloud_bin", frag_id, "pose.npy">>

\* volume.extract_point_cloud(): determined by the frames integrated, in order
extract_point_cloud(vol) ==
    [frames |-> SelectSeq(vol.log, LAMBDA e : e[1] = "integrate"),
     color_type |-> vol.color_type,
     normals |-> FALSE]

\* o3d.geometry.estimate_normals(pcloud)
estimate_normals(pc) == [pc EXCEPT !.normals = TRUE]

Running == {f \in DOMAIN tasks : tasks[f].pc # "done"}

\* process_single_fragment up to the loop: the volume, sid, eid, no base yet.
\* A volume records who created it, who used it and the calls made on it (log);
\* a call records the frame indices its loop has visited.
Enter(frag_id) ==
    LET vid == NewVolume(volumes)
        sid == FragStart(frag_id, frames_per_frag)
        eid == FragEnd(sid, frames_per_frag, n_frames)
    IN  /\ volumes' =
              IF vid > Len(volumes)
              THEN Append(volumes, [creator |-> frag_id, users |-> {frag_id},
                                    color_type |-> ColorType(depth_only_flag),
                                    log |-> <<>>])
              ELSE [volumes EXCEPT ![vid].users = @ \cup {frag_id}]
        /\ tasks' = (frag_id :> [pc |-> "loop", volume |-> vid, sid |-> sid, eid |-> eid,
                                 fid |-> sid, visited |-> <<>>,
                                 pose_base2world |-> None,
                                 pose_base2world_inv |-> None,
                                 pcloud |-> None]) @@ tasks
        /\ started' = Append(started, frag_id)

\* run_seq, threads <= 1: the next call starts when the previous one returned
CallSequential ==
    /\ run_pc = "fragments"
    /\ ~(threads > 1)
    /\ Running = {}
    /\ Len(started) < n_frags
    /\ Enter(Len(started))
    /\ UNCHANGED <<n_frames, frames_per_frag, threads, depth_only_flag, pose_files,
                   n_frags, run_pc, files, icp_vars>>

\* run_seq, threads > 1: Parallel(n_jobs=threads) takes the next frag_id of the
\* generator when a worker is free
DispatchParallel ==
    /\ run_pc = "fragments"
    /\ threads > 1
    /\ Cardinality(Running) < threads
    /\ Len(started) < n_frags
    /\ Enter(Len(started))
    /\ UNCHANGED <<n_frames, frames_per_frag, threads, depth_only_flag, pose_files,
                   n_frags, run_pc, files, icp_vars>>

TaskFrame == <<n_frames, frames_per_frag, threads, depth_only_flag, pose_files,
               n_frags, run_pc, started>>

AtLoop(f) == f \in DOMAIN tasks /\ tasks[f].pc = "loop" /\ tasks[f].fid < tasks[f].eid

\* the pose one iteration reads
PoseRead(f) == read_extrinsic(pose_files[tasks[f].fid])

\* pose_base2world, pose_base2world_inv after the "if fid == sid" statement
BaseAfter(f) ==
    IF IsBaseFrame(tasks[f].fid, tasks[f].sid)
    THEN <<PoseRead(f), Inv(PoseRead(f))>>
    ELSE <<tasks[f].pose_base2world, tasks[f].pose_base2world_inv>>

\* an iteration whose pose is None: continue
SkipFrame(f) ==
    /\ AtLoop(f)
    /\ PoseRead(f) = None
    /\ tasks' = [tasks EXCEPT ![f].fid = @ + 1,
                              ![f].visited = Append(@, tasks[f].fid)]
    /\ UNCHANGED <<TaskFrame, volumes, files, icp_vars>>

\* an iteration with a pose but no base: break
BreakNoBase(f) ==
    /\ AtLoop(f)
    /\ PoseRead(f) # None
    /\ BreaksWithoutBase(BaseAfter(f)[2])
    /\ tasks' = [tasks EXCEPT ![f].pc = "after_loop",
                              ![f].visited = Append(@, tasks[f].fid),
                              ![f].pose_base2world = BaseAfter(f)[1],
                              ![f].pose_base2world_inv = BaseAfter(f)[2]]
    /\ UNCHANGED <<TaskFrame, volumes, files, icp_vars>>

\* an iteration that reaches volume.integrate
IntegrateFrame(f) ==
    /\ AtLoop(f)
    /\ PoseRead(f) # None
    /\ ~BreaksWithoutBase(BaseAfter(f)[2])
    /\ LET t == tasks[f]
           rel == RelativePose(BaseAfter(f)[2], PoseRead(f))
           rgbd == read_rgbd_image(color_path_of(depth_only_flag, t.fid), DepthPath(t.fid))
       IN  /\ volumes' = [volumes EXCEPT ![t.volume].log =
                             Append(@, <<"integrate", t.fid, rgbd, IntegrateExtrinsic(rel)>>)]
           /\ tasks' = [tasks EXCEPT ![f].fid = @ + 1,
                                     ![f].visited = Append(@, t.fid),
                                     ![f].pose_base2world = BaseAfter(f)[1],
                                     ![f].pose_base2world_inv = BaseAfter(f)[2]]
    /\ UNCHANGED <<TaskFrame, files, icp_vars>>

\* range(sid, eid) is exhausted
LoopExit(f) ==
    /\ f \in DOMAIN tasks
    /\ tasks[f].pc = "loop"
    /\ ~(tasks[f].fid < tasks[f].eid)
    /\ tasks' = [tasks EXCEPT ![f].pc = "after_loop"]
    /\ UNCHANGED <<TaskFrame, volumes, files, icp_vars>>

\* if pose_base2world_inv is None: return
ReturnEmpty(f) ==
    /\ f \in DOMAIN tasks
    /\ tasks[f].pc = "after_loop"
    /\ HasNoBase(tasks[f].pose_base2world_inv)
    /\ tasks' = [tasks EXCEPT ![f].pc = "done"]
    /\ UNCHANGED <<TaskFrame, volumes, files, icp_vars>>

\* pcloud = volume.extract_point_cloud(); estimate_normals(pcloud)
Extract(f) ==
    /\ f \in DOMAIN tasks
    /\ tasks[f].pc = "after_loop"
    /\ ~HasNoBase(tasks[f].pose_base2world_inv)
    /\ LET vid == tasks[f].volume
       IN  /\ tasks' = [tasks EXCEPT ![f].pc = "write_ply",
                           ![f].pcloud = estimate_normals(extract_point_cloud(volumes[vid]))]
           /\ volumes' = [volumes EXCEPT ![vid].log = Append(@, <<"extract">>)]
    /\ UNCHANGED <<TaskFrame, files, icp_vars>>

\* o3d.write_point_cloud(.../cloud_bin_<frag_id>.ply, pcloud)
WritePly(f) ==
    /\ f \in DOMAIN tasks
    /\ tasks[f].pc = "write_ply"
    /\ files' = (PlyName(f) :> tasks[f].pcloud) @@ files
    /\ tasks' = [tasks EXCEPT ![f].pc = "save_pose"]
    /\ UNCHANGED <<TaskFrame, volumes, icp_vars>>

\* np.save(.../cloud_bin_<frag_id>.pose.npy, pose_base2world)
SavePose(f) ==
    /\ f \in DOMAIN tasks
    /\ tasks[f].pc = "save_pose"
    /\ files' = (PoseName(f) :> SavedPose(tasks[f])) @@ files
    /\ tasks' = [tasks EXCEPT ![f].pc = "done"]
    /\ UNCHANGED <<TaskFrame, volumes, icp_vars>>

\* every call returned: print("    Finished ...")
RunFinished ==
    /\ run_pc = "fragments"
    /\ Len(started) = n_frags
    /\ Running = {}
    /\ run_pc' = "finished"
    /\ UNCHANGED <<n_frames, frames_per_frag, threads, depth_only_flag, pose_files,
                   n_frags, started, tasks, volumes, files, icp_vars>>

IcpIdle ==
    /\ icp_pc = "off"
    /\ heap = <<>>
    /\ source = 0
    /\ target = 0
    /\ trans_init = Identity
    /\ loaded = None
    /\ draw = None
    /\ shown = <<>>
    /\ reg_calls = <<>>
    /\ reg_p2p = None
    /\ reg_p2l = None

\* run_seq after listing the sequence folder: n_frames and n_frags are known.
\* Colour files are either paired with the depth files or absent.
Init ==
    /\ n_frames \in 0..MaxFrames
    /\ frames_per_frag \in 1..MaxFramesPerFrag
    /\ threads \in 1..MaxThreads
    /\ depth_only_flag \in BOOLEAN
    /\ pose_files \in [0..(n_frames - 1) -> PoseVals \cup {NaNMatrix}]
    /\ n_frags = NFrags(n_frames, frames_per_frag)
    /\ run_pc = "fragments"
    /\ started = <<>>
    /\ tasks = <<>>
    /\ volumes = <<>>
    /\ files = <<>>
    /\ IcpIdle

Next ==
    \/ CallSequential
    \/ DispatchParallel
    \/ \E f \in DOMAIN tasks : SkipFrame(f)
    \/ \E f \in DOMAIN tasks : BreakNoBase(f)
    \/ \E f \in DOMAIN tasks : IntegrateFrame(f)
    \/ \E f \in DOMAIN tasks : LoopExit(f)
    \/ \E f \in DOMAIN tasks : ReturnEmpty(f)
    \/ \E f \in DOMAIN tasks : Extract(f)
    \/ \E f \in DOMAIN tasks : WritePly(f)
    \/ \E f \in DOMAIN tasks : SavePose(f)
    \/ RunFinished

Spec == Init /\ [][Next]_vars

\* ------------------------------------------------------- icp_registration
\* a point cloud: where its points lie (a placement), its colours, its normals
Cloud(points) == [points |-> points, colors |-> "own", normals |-> TRUE]

\* PointCloud.paint_uniform_color(color)
paint_uniform_color(c, color) == [c EXCEPT !.colors = color]

\* PointCloud.transform(transformation)
transform(c, transformation) == [c EXCEPT !.points = Mul(transformation, @)]

\* variant: the same object instead of a copy
deepcopy_alias(h, r) == r

\* the reference copy.deepcopy(x) returns: a new object
deepcopy(h, r) == Len(h) + 1

\* the transformations a registration_icp run may return
IcpResults == PoseVals \cup {Identity}

FuseIdle ==
    /\ n_frames = 0
    /\ frames_per_frag = 1
    /\ threads = 1
    /\ depth_only_flag = FALSE
    /\ pose_files = <<>>
    /\ n_frags = 0
    /\ run_pc = "off"
    /\ started = <<>>
    /\ tasks = <<>>
    /\ volumes = <<>>
    /\ files = <<>>

\* __main__ once source, target (with normals), threshold and trans_init are set
InitICP ==
    /\ FuseIdle
    /\ \E ps \in AllPoses, pt \in AllPoses :
          /\ heap = <<Cloud(ps), Cloud(pt)>>
          /\ loaded = [source |-> Cloud(ps), target |-> Cloud(pt), trans_init |-> Identity]
    /\ source = 1
    /\ target = 2
    /\ trans_init = Identity
    /\ icp_pc = "draw_initial"
    /\ draw = None
    /\ shown = <<>>
    /\ reg_calls = <<>>
    /\ reg_p2p = None
    /\ reg_p2l = None

\* entering draw_registration_result(source, target, transformation)
CallDraw(transformation, ret) ==
    /\ draw' = [source |-> source, target |-> target, transformation |-> transformation,
                source_temp |-> 0, target_temp |-> 0, ret |-> ret]
    /\ icp_pc' = "copy_source"
    /\ UNCHANGED <<heap, source, target, trans_init, loaded, shown, reg_calls,
                   reg_p2p, reg_p2l, fuse_vars>>

\* draw_registration_result(source, target, trans_init)
DrawInitial ==
    /\ icp_pc = "draw_initial"
    /\ CallDraw(trans_init, "evaluate")

\* source_temp = copy.deepcopy(source)
DrawCopySource ==
    /\ icp_pc = "copy_source"
    /\ draw' = [draw EXCEPT !.source_temp = deepcopy(heap, draw.source)]
    /\ heap' = Append(heap, heap[draw.source])
    /\ icp_pc' = "copy_target"
    /\ UNCHANGED <<source, target, trans_init, loaded, shown, reg_calls,
                   reg_p2p, reg_p2l, fuse_vars>>

\* target_temp = copy.deepcopy(target)
DrawCopyTarget ==
    /\ icp_pc = "copy_target"
    /\ draw' = [draw EXCEPT !.target_temp = deepcopy(heap, draw.target)]
    /\ heap' = Append(heap, heap[draw.target])
    /\ icp_pc' = "paint_source"
    /\ UNCHANGED <<source, target, trans_init, loaded, shown, reg_calls,
                   reg_p2p, reg_p2l, fuse_vars>>

\* source_temp.paint_uniform_color([1, 0.706, 0])
DrawPaintSource ==
    /\ icp_pc = "paint_source"
    /\ heap' = [heap EXCEPT ![draw.source_temp] = paint_uniform_color(@, "yellow")]
    /\ icp_pc' = "paint_target"
    /\ UNCHANGED <<source, target, trans_init, loaded, draw, shown, reg_calls,
                   reg_p2p, reg_p2l, fuse_vars>>

\* target_temp.paint_uniform_color([0, 0.651, 0.929])
DrawPaintTarget ==
    /\ icp_pc = "paint_target"
    /\ heap' = [heap EXCEPT ![draw.target_temp] = paint_uniform_color(@, "blue")]
    /\ icp_pc' = "transform_source"
    /\ UNCHANGED <<source, target, trans_init, loaded, draw, shown, reg_calls,
                   reg_p2p, reg_p2l, fuse_vars>>

\* source_temp.transform(transformation)
DrawTransform ==
    /\ icp_pc = "transform_source"
    /\ heap' = [heap EXCEPT ![draw.source_temp] = transform(@, draw.transformation)]
    /\ icp_pc' = "draw_geometries"
    /\ UNCHANGED <<source, target, trans_init, loaded, draw, shown, reg_calls,
                   reg_p2p, reg_p2l, fuse_vars>>

\* draw_geometries([source_temp, target_temp]), then return
DrawGeometries ==
    /\ icp_pc = "draw_geometries"
    /\ shown' = Append(shown, <<heap[draw.source_temp], heap[draw.target_temp]>>)
    /\ icp_pc' = draw.ret
    /\ draw' = None
    /\ UNCHANGED <<heap, source, target, trans_init, loaded, reg_calls,
                   reg_p2p, reg_p2l, fuse_vars>>

\* the arguments one registration call receives
RegCall(fn, init, estimation) ==
    [fn |-> fn, source |-> heap[source], target |-> heap[target],
     init |-> init, estimation |-> estimation]

\* evaluation = evaluate_registration(source, target, threshold, trans_init)
Evaluate ==
    /\ icp_pc = "evaluate"
    /\ reg_calls' = Append(reg_calls, RegCall("evaluate_registration", trans_init, "none"))
    /\ icp_pc' = "icp_p2p"
    /\ UNCHANGED <<heap, source, target, trans_init, loaded, draw, shown,
                   reg_p2p, reg_p2l, fuse_vars>>

\* the init argument of the point-to-plane run
P2LInit == trans_init

\* reg_p2p = registration_icp(source, target, threshold, trans_init, ...PointToPoint())
IcpPointToPoint ==
    /\ icp_pc = "icp_p2p"
    /\ reg_calls' = Append(reg_calls, RegCall("registration_icp", trans_init, "PointToPoint"))
    /\ reg_p2p' \in IcpResults
    /\ icp_pc' = "draw_p2p"
    /\ UNCHANGED <<heap, source, target, trans_init, loaded, draw, shown,
                   reg_p2l, fuse_vars>>

\* draw_registration_result(source, target, reg_p2p.transformation)
DrawP2P ==
    /\ icp_pc = "draw_p2p"
    /\ CallDraw(reg_p2p, "icp_p2l")

\* reg_p2l = registration_icp(source, target, threshold, trans_init, ...PointToPlane())
IcpPointToPlane ==
    /\ icp_pc = "icp_p2l"
    /\ reg_calls' = Append(reg_calls, RegCall("registration_icp", P2LInit, "PointToPlane"))
    /\ reg_p2l' \in IcpResults
    /\ icp_pc' = "draw_p2l"
    /\ UNCHANGED <<heap, source, target, trans_init, loaded, draw, shown,
                   reg_p2p, fuse_vars>>

\* draw_registration_result(source, target, reg_p2l.transformation)
DrawP2L ==
    /\ icp_pc = "draw_p2l"
    /\ CallDraw(reg_p2l, "end")

NextICP ==
    \/ DrawInitial
    \/ DrawCopySource
    \/ DrawCopyTarget
    \/ DrawPaintSource
    \/ DrawPaintTarget
    \/ DrawTransform
    \/ DrawGeometries
    \/ Evaluate
    \/ IcpPointToPoint
    \/ DrawP2P
    \/ IcpPointToPlane
    \/ DrawP2L

SpecICP == InitICP /\ [][NextICP]_vars

\* ================================================================ claims
\* the frame range the contract gives fragment f
ClaimLo(f) == f * frames_per_frag
ClaimHi(f) == Min(n_frames, (f + 1) * frames_per_frag)
ClaimRange(f) == {i \in 0..(n_frames - 1) : ClaimLo(f) <= i /\ i < ClaimHi(f)}
Valid(i) == pose_files[i] # NaNMatrix
ValidIn(f) == {i \in ClaimRange(f) : Valid(i)}
SetMin(S) == CHOOSE m \in S : \A x \in S : m <= x
\* lo, lo+1, ..., hi-1
AscSeq(lo, hi) == [i \in 1..(hi - lo) |-> lo + i - 1]
Returned(f) == f \in DOMAIN tasks /\ tasks[f].pc = "done"
Integrations(v) == SelectSeq(v.log, LAMBDA e : e[1] = "integrate")
IntegratedFids(v) == [i \in 1..Len(Integrations(v)) |-> Integrations(v)[i][2]]
ClaimPly(f) == <<"cloud_bin", f, "ply">>
ClaimPose(f) == <<"cloud_bin", f, "pose.npy">>

\* C1: when a fragment's range holds a frame with a valid pose, the first such
\* frame becomes the base (pose_base2world is its pose) and the fragment
\* produces output; invalid frames before it are skipped.
C1_FirstValidBecomesBase ==
    \A f \in DOMAIN tasks :
        (Returned(f) /\ ValidIn(f) # {}) =>
            /\ tasks[f].pose_base2world = pose_files[SetMin(ValidIn(f))]
            /\ ClaimPly(f) \in DOMAIN files
            /\ ClaimPose(f) \in DOMAIN files

\* C2: the frames a call visits in its loop are exactly those of
\* [frag_id*frames_per_frag, min(n_frames, (frag_id+1)*frames_per_frag)),
\* in ascending order.
C2_VisitsWholeRange ==
    \A f \in DOMAIN tasks :
        Returned(f) => tasks[f].visited = AscSeq(ClaimLo(f), ClaimHi(f))

\* C3: a fragment whose range holds only invalid poses never integrates, never
\* extracts and writes neither file.
C3_AllInvalidIsEmpty ==
    \A f \in DOMAIN tasks :
        (\A i \in ClaimRange(f) : ~Valid(i)) =>
            /\ volumes[tasks[f].volume].log = <<>>
            /\ tasks[f].pc \in {"loop", "after_loop", "done"}
            /\ tasks[f].pcloud = None
            /\ ClaimPly(f) \notin DOMAIN files
            /\ ClaimPose(f) \notin DOMAIN files

C3_Witness ==
    \E f \in DOMAIN tasks :
        /\ Returned(f)
        /\ Cardinality(ClaimRange(f)) >= 2
        /\ \A i \in ClaimRange(f) : ~Valid(i)
        /\ Len(tasks[f].visited) = Cardinality(ClaimRange(f))

\* C4: a frame with an invalid pose is never integrated; when the first frame
\* of the range is valid, the frames integrated are exactly the valid frames of
\* the range, each once (in order).
C4_InvalidSkippedOnly ==
    /\ \A k \in 1..Len(volumes) :
          \A j \in 1..Len(Integrations(volumes[k])) :
              Valid(Integrations(volumes[k])[j][2])
    /\ \A f \in DOMAIN tasks :
          (Returned(f) /\ ClaimRange(f) # {} /\ Valid(ClaimLo(f))) =>
              IntegratedFids(volumes[tasks[f].volume]) =
                  SelectSeq(AscSeq(ClaimLo(f), ClaimHi(f)), Valid)

C4_Witness ==
    \E f \in DOMAIN tasks :
        /\ Returned(f)
        /\ Cardinality(ClaimRange(f)) = 3
        /\ Valid(ClaimLo(f)) /\ ~Valid(ClaimLo(f) + 1) /\ Valid(ClaimLo(f) + 2)
        /\ IntegratedFids(volumes[tasks[f].volume]) = <<ClaimLo(f), ClaimLo(f) + 2>>

\* what one call of process_single_fragment, run alone on the input, writes
FusedFrames(f) ==
    LET fids == SelectSeq(AscSeq(ClaimLo(f), ClaimHi(f)), Valid)
        base == pose_files[ClaimLo(f)]
    IN  [i \in 1..Len(fids) |->
            <<"integrate", fids[i],
              [color |-> IF depth_only_flag THEN <<"depth", fids[i]>>
                         ELSE <<"color", fids[i]>>,
               depth |-> <<"depth", fids[i]>>],
              Inv(Mul(Inv(base), pose_files[fids[i]]))>>]
FusedCloud(f) ==
    [frames |-> FusedFrames(f),
     color_type |-> IF depth_only_flag THEN "None" ELSE "RGB8",
     normals |-> TRUE]
Fused == {f \in 0..(n_frames - 1) : ClaimRange(f) # {} /\ Valid(ClaimLo(f))}
FusedOutput ==
    [name \in {ClaimPly(f) : f \in Fused} \cup {ClaimPose(f) : f \in Fused} |->
        IF name[3] = "ply" THEN FusedCloud(name[2]) ELSE pose_files[ClaimLo(name[2])]]

\* C5: the files a finished run leaves are a function of the input alone: the
\* sequential loop (threads = 1) and every interleaving of the worker pool
\* (threads > 1) end with the same point cloud and base pose per fragment index,
\* or the same absence of output.
C5_PoolSizeIndependent ==
    run_pc = "finished" => files = FusedOutput

C5_Witness ==
    /\ run_pc = "finished"
    /\ threads > 1
    /\ Cardinality(Fused) >= 2
    /\ \E f \in 0..(n_frames - 1) : ClaimRange(f) # {} /\ f \notin Fused
    /\ \A f \in Fused : ClaimPly(f) \in DOMAIN files

\* C6: every integrate call receives inverse(inverse(pose_base) * pose_frame);
\* the base frame itself is integrated with the identity.
C6_RelativeToBase ==
    \A k \in 1..Len(volumes) :
        \A j \in 1..Len(Integrations(volumes[k])) :
            LET e == Integrations(volumes[k])[j]
                t == tasks[volumes[k].creator]
            IN  /\ e[4] = Inv(Mul(Inv(t.pose_base2world), pose_files[e[2]]))
                /\ (e[2] = t.sid => e[4] = Identity)

C6_Witness ==
    \E k \in 1..Len(volumes) :
        LET ints == Integrations(volumes[k])
        IN  /\ Len(ints) = 3
            /\ ints[1][4] = Identity
            /\ ints[2][4] # Identity
            /\ ints[2][4] # Inv(ints[2][4])
            /\ ints[3][4] # ints[2][4]

\* C7: a returned call has written both files or neither; both exactly when a
\* base pose was established; the saved pose is the base frame's pose as read,
\* and the saved cloud is the one extracted from the call's volume.
C7_BothFilesOrNothing ==
    \A f \in DOMAIN tasks :
        Returned(f) =>
            /\ (ClaimPly(f) \in DOMAIN files) <=> (ClaimPose(f) \in DOMAIN files)
            /\ (ClaimPose(f) \in DOMAIN files) <=> (tasks[f].pose_base2world # None)
            /\ (ClaimPose(f) \in DOMAIN files) =>
                  /\ files[ClaimPose(f)] = pose_files[tasks[f].sid]
                  /\ files[ClaimPly(f)].frames = Integrations(volumes[tasks[f].volume])

C7_Witness ==
    /\ run_pc = "finished"
    /\ \E f \in DOMAIN tasks :
          /\ ClaimPose(f) \in DOMAIN files
          /\ Len(files[ClaimPly(f)].frames) >= 2
          /\ files[ClaimPose(f)] \in PoseVals
    /\ \E f \in DOMAIN tasks :
          /\ ClaimPose(f) \notin DOMAIN files
          /\ ClaimPly(f) \notin DOMAIN files

\* C8: a volume is created empty by the one call that uses it; its integrate
\* calls come in strictly ascending frame order; extract_point_cloud happens at
\* most once and nothing follows it.
C8_VolumeLifecycle ==
    /\ \A f \in DOMAIN tasks :
          /\ tasks[f].volume \in 1..Len(volumes)
          /\ volumes[tasks[f].volume].creator = f
          /\ volumes[tasks[f].volume].users = {f}
    /\ \A f, g \in DOMAIN tasks : tasks[f].volume = tasks[g].volume => f = g
    /\ \A k \in 1..Len(volumes) :
          LET log == volumes[k].log
          IN  /\ \A i \in 1..Len(log) : log[i][1] = "extract" => i = Len(log)
              /\ \A i, j \in 1..Len(log) :
                    (i < j /\ log[i][1] = "integrate" /\ log[j][1] = "integrate")
                        => log[i][2] < log[j][2]
              /\ (tasks[volumes[k].creator].pc = "loop") =>
                    \A i \in 1..Len(log) : log[i][1] = "integrate"

C8_Witness ==
    /\ Len(volumes) >= 2
    /\ \E k \in 1..Len(volumes) :
          LET log == volumes[k].log
          IN  /\ Len(log) = 3
              /\ log[1][1] = "integrate" /\ log[2][1] = "integrate"
              /\ log[3][1] = "extract"
              /\ tasks[volumes[k].creator].pc = "done"
    /\ \E k \in 1..Len(volumes) :
          /\ tasks[volumes[k].creator].pc = "loop"
          /\ Len(volumes[k].log) >= 1

\* ceil(n_frames / frames_per_frag), as the contract counts fragments
ClaimNFrags == CHOOSE k \in 0..n_frames :
                  /\ k * frames_per_frag >= n_frames
                  /\ \A j \in 0..n_frames : j * frames_per_frag >= n_frames => k <= j

\* C9: run_seq calls process_single_fragment exactly once per frag_id in
\* 0..ceil(n_frames/frames_per_frag)-1, and the calls' frame ranges partition
\* 0..n_frames-1: non-empty, pairwise disjoint, covering.
C9_FragmentsPartitionFrames ==
    /\ \A i, j \in 1..Len(started) : started[i] = started[j] => i = j
    /\ run_pc = "finished" =>
          /\ started = AscSeq(0, ClaimNFrags)
          /\ DOMAIN tasks = {f \in 0..(n_frames - 1) : f < ClaimNFrags}
          /\ \A f \in DOMAIN tasks : tasks[f].sid < tasks[f].eid
          /\ \A i \in 0..(n_frames - 1) :
                Cardinality({f \in DOMAIN tasks :
                                tasks[f].sid <= i /\ i < tasks[f].eid}) = 1
          /\ \A f \in DOMAIN tasks : 0 <= tasks[f].sid /\ tasks[f].eid <= n_frames

C9_Witness ==
    /\ run_pc = "finished"
    /\ n_frames = 3
    /\ frames_per_frag = 2
    /\ Len(started) = 2
    /\ tasks[1].eid - tasks[1].sid = 1

\* C10: draw_registration_result works on copies: the source cloud, the target
\* cloud and the initial transform are unchanged throughout, and
\* evaluate_registration and both ICP runs receive exactly these values (the
\* point-to-plane run starts from the initial transform).
C10_OriginalsUntouched ==
    icp_pc # "off" =>
        /\ heap[source] = loaded.source
        /\ heap[target] = loaded.target
        /\ trans_init = loaded.trans_init
        /\ \A i \in 1..Len(reg_calls) :
              /\ reg_calls[i].source = loaded.source
              /\ reg_calls[i].target = loaded.target
              /\ reg_calls[i].init = loaded.trans_init

C10_Witness ==
    /\ icp_pc = "end"
    /\ Len(reg_calls) = 3
    /\ reg_calls[3].estimation = "PointToPlane"
    /\ reg_p2p # Identity
    /\ Len(shown) = 3
    /\ shown[2][1].points # loaded.source.points
    /\ shown[2][1].colors = "yellow"

====
